---- MODULE Spec2Model ----
(***************************************************************************)
(* Model of the PerformanceComparison benchmark harness (benchmark.py,     *)
(* src/utils.py) and of the kernels in src/methods.                        *)
(*                                                                         *)
(* Cell values of the input field are kept in tenths (-5 is -0.5, 6 is     *)
(* 0.6), products with 255 are exact rationals n/10, and the conversions   *)
(* the kernels apply to them (int(), the store into a uint8 buffer) are    *)
(* modelled as truncation toward zero.                                     *)
(***************************************************************************)
EXTENDS Integers, Sequences, FiniteSets, TLC

\* ------------------------------------------------------------------ bounds
\* rows of the grid (SIZE[0])
GRID_ROW == 1
\* columns of the grid (SIZE[1])
GRID_COL == 2
\* timed invocations per kernel
NUM_TRIALS == 2
\* NUM_WARMUP ranges over 0..MaxWarmup
MaxWarmup == 2
\* entries of the listed directory
MaxFiles == 2
\* a timer difference ranges over 0..MaxElapsed
MaxElapsed == 1
\* successive invocations of one kernel (SpecKernel)
MaxCalls == 2
\* warm-up cycles of main.py
WARMUP_RUNS == 1
\* executions per timeit call of main.py
COUNTING_RUNS == 2

\* ------------------------------------------------------- program constants
SEED == 1337

None == "None"

\* no exception is propagating
NoExc == [type |-> None, kernel |-> None]

\* ------------------------------------------------------------------ arrays
Cells == (0 .. GRID_ROW - 1) \X (0 .. GRID_COL - 1)

\* cell values, in tenths, of an input field in [-1, 1]
InputVals == {-5, 0, 6}

Fields == [Cells -> InputVals]

\* zeros((GRID_ROW, GRID_COL, 3), dtype=uint8)
ZeroBuffer == [c \in Cells |-> <<0, 0, 0>>]

\* an output buffer that an earlier use left non-zero in every channel
DirtyBuffer == [c \in Cells |-> <<7, 8, 9>>]

\* fn.genAsGrid: a deterministic field fixed by the seed
NoiseField ==
    [c \in Cells |-> <<-5, 0, 6>>[((SEED + c[1] * GRID_COL + c[2]) % 3) + 1]]

\* truncation toward zero of the rational n/10: int(x), and the C cast of
\* a float to an integer type
IntTrunc(n) == IF n >= 0 THEN n \div 10 ELSE -((-n) \div 10)

\* storing the rational n/10 into a uint8 element
ToUint8(n) == IntTrunc(n) % 256

\* ----------------------------------------------------------------- kernels
\* Each process maps (start_array, end_array) to the contents end_array has
\* afterwards ("end_array") and the array it returns ("ret").

\* variant: only channel 0 of a cell is written
nested_loop_process_channel0(s, e) ==
    LET new == [c \in Cells |->
                  LET res == IF s[c] > 0 THEN s[c] * 255 ELSE 0
                  IN  [e[c] EXCEPT ![1] = ToUint8(res)]]
    IN  [end_array |-> new, ret |-> new]

\* variant: res is broadcast to the three channels of a cell
nested_loop_process_broadcast(s, e) ==
    LET new == [c \in Cells |->
                  LET res == IF s[c] > 0 THEN s[c] * 255 ELSE 0
                  IN  <<ToUint8(res), ToUint8(res), ToUint8(res)>>]
    IN  [end_array |-> new, ret |-> new]

nested_loop_process(s, e) ==
    LET new == [c \in Cells |->
                  LET res == IF s[c] > 0 THEN s[c] * 255 ELSE 0
                  IN  <<ToUint8(res), 0, 0>>]
    IN  [end_array |-> new, ret |-> new]

list_comprehension_process(s, e) ==
    [end_array |-> e,
     ret |-> [c \in Cells |-> <<IntTrunc(s[c] * 255), 0, 0>>]]

process_cell(value) ==
    <<IF value > 0 THEN IntTrunc(255 * value) ELSE 0, 0, 0>>

parallel_process(s, e) ==
    [end_array |-> e, ret |-> [c \in Cells |-> process_cell(s[c])]]

dask_array_process(s, e) ==
    LET new == [c \in Cells |->
                  LET res == IF s[c] > 0 THEN 255 * s[c] ELSE 0
                  IN  [e[c] EXCEPT ![1] = ToUint8(res)]]
    IN  [end_array |-> new, ret |-> new]

\* numpy.heaviside(x, 0)
heaviside(x) == IF x > 0 THEN 1 ELSE 0

heaviside_process(s, e) ==
    LET new == [c \in Cells |->
                  [e[c] EXCEPT ![1] = ToUint8(heaviside(s[c]) * s[c] * 255)]]
    IN  [end_array |-> new, ret |-> new]

\* numpy.clip(x, 0, None)
clip(x) == IF x < 0 THEN 0 ELSE x

clip_process(s, e) ==
    LET new == [c \in Cells |-> [e[c] EXCEPT ![1] = ToUint8(clip(s[c]) * 255)]]
    IN  [end_array |-> new, ret |-> new]

\* variant: the new values are added to channel 0
where_process_accumulates(s, e) ==
    LET new_end_array == [c \in Cells |-> IF s[c] > 0 THEN 255 * s[c] ELSE 0]
        new == [c \in Cells |->
                  [e[c] EXCEPT ![1] = (@ + ToUint8(new_end_array[c])) % 256]]
    IN  [end_array |-> new, ret |-> new]

where_process(s, e) ==
    LET new_end_array == [c \in Cells |-> IF s[c] > 0 THEN 255 * s[c] ELSE 0]
        new == [c \in Cells |-> [e[c] EXCEPT ![1] = ToUint8(new_end_array[c])]]
    IN  [end_array |-> new, ret |-> new]

piecewise_process(s, e) ==
    LET pw == [c \in Cells |-> IF s[c] > 0 THEN s[c] * 255 ELSE 0]
        new == [c \in Cells |-> [e[c] EXCEPT ![1] = ToUint8(pw[c])]]
    IN  [end_array |-> new, ret |-> new]

\* the kernel definitions of src/methods, by module name
Kernels == {"nested_loop_method", "list_comprehension_method",
            "parallel_method", "dask_array_method", "heaviside_method",
            "clip_method", "where_method", "piecewise_method"}

\* module.process
Process(k, s, e) ==
    CASE k = "nested_loop_method"        -> nested_loop_process(s, e)
      [] k = "list_comprehension_method" -> list_comprehension_process(s, e)
      [] k = "parallel_method"           -> parallel_process(s, e)
      [] k = "dask_array_method"         -> dask_array_process(s, e)
      [] k = "heaviside_method"          -> heaviside_process(s, e)
      [] k = "clip_method"               -> clip_process(s, e)
      [] k = "where_method"              -> where_process(s, e)
      [] k = "piecewise_method"          -> piecewise_process(s, e)

\* the names the setup code returned by module.setup() binds when executed
SetupBindings(k) ==
    CASE k = "nested_loop_method"        -> {}
      [] k = "list_comprehension_method" -> {"array"}
      [] k = "parallel_method"           -> {"array", "Parallel", "delayed",
                                             "cpu_count", "n_jobs",
                                             "process_cell", "process_row"}
      [] k = "dask_array_method"         -> {"zeros", "uint64", "numba",
                                             "new_end_array"}
      [] k = "heaviside_method"          -> {"heaviside"}
      [] k = "clip_method"               -> {"clip"}
      [] k = "where_method"              -> {"where"}
      [] k = "piecewise_method"          -> {"piecewise", "positive_multiplier"}
      [] OTHER                           -> {}

\* ---------------------------------------------------------------- registry
\* A directory entry is its name split at the last three characters, so that
\* f.endswith('.py') reads the suffix and f[:-3] the stem.
File(stem, suffix) == [stem |-> stem, suffix |-> suffix]

\* definitions that lack one of the two callables
Malformed == {"no_process_method", "no_setup_method"}

\* the entries a listing of src/methods is drawn from
DirEntries ==
    {File(k, ".py") : k \in Kernels \cup Malformed}
        \cup {File("__init__", ".py"), File("__pycach", "e__")}

\* hasattr(module, "setup"), hasattr(module, "process")
HasSetup(m) == m # "no_setup_method"

HasProcess(m) == m # "no_process_method"

\* listdir('src/methods'): the entries in an arbitrary order
Listings ==
    UNION {{l \in [1 .. n -> DirEntries] :
              \A i, j \in 1 .. n : i # j => l[i] # l[j]} : n \in 0 .. MaxFiles}

\* variant: every entry ending in .py is kept
IsMethodFileAnyPy(f) ==
    f.suffix = ".py"

\* f.endswith('.py') and f != '__init__.py'
IsMethodFile(f) ==
    f.suffix = ".py" /\ f # File("__init__", ".py")

\* the keys of the dict create_methods_list returns, in insertion order; the
\* value of a key is the module imported under that name
create_methods_list(listing) ==
    LET method_files == SelectSeq(listing, IsMethodFile)
    IN  [i \in 1 .. Len(method_files) |-> method_files[i].stem]

\* ------------------------------------------------------------------- state
VARIABLES
    DEBUG,           \* profiling flag
    NUM_WARMUP,      \* warm-up count
    methods,         \* registry: module names in dict order
    start_array,     \* the shared input field
    end_array,       \* the shared output buffer
    pc,              \* position of the program
    idx,             \* position of the running for loop
    method_name,     \* the kernel being measured
    bm,              \* locals of the running benchmark call
    results,         \* (name, avg_time, total_time) collected so far
    overall,         \* running grand total
    sorted_results,  \* results after sorted()
    out,             \* lines printed so far
    exc,             \* the exception that ended the run, or None
    obs,             \* observation of the running benchmark call
    invoked,         \* kernels whose process was called at least once
    ret,             \* the array the last process call returned
    calls,           \* process calls made so far (SpecKernel)
    buf0,            \* the output buffer before the first call (SpecKernel)
    listed,          \* create_methods_list: what listdir returned
    method_files,    \* create_methods_list: the names kept, suffix removed
    imported         \* create_methods_list: the names given to import_module

vars == <<DEBUG, NUM_WARMUP, methods, start_array, end_array, pc, idx,
          method_name, bm, results, overall, sorted_results, out, exc, obs,
          invoked, ret, calls, buf0, listed, method_files, imported>>

\* the locals of create_methods_list
discovery == <<listed, method_files, imported>>

config == <<DEBUG, NUM_WARMUP, methods, start_array, buf0, calls, discovery>>

report == <<results, overall, sorted_results, out>>

\* the locals of benchmark() before its first statement
NoFrame ==
    [setup_code |-> None, NS |-> None, globals |-> {}, locals |-> {},
     warm_left |-> 0, it_left |-> 0, phase |-> "none",
     elapsed_time |-> 0, profiler_on |-> FALSE]

\* nothing observed yet of a benchmark call
NoObs ==
    [setup_calls |-> 0, ns_builds |-> 0, setup_execs |-> 0, region |-> FALSE,
     region_calls |-> 0, warm_calls |-> 0]

Line(kind, name, avg, total) ==
    [kind |-> kind, name |-> name, avg |-> avg, total |-> total]

Separator == Line("separator", None, None, None)

\* ------------------------------------------------------------- arithmetic
\* variant: the average taken over the warm-up invocations as well
AvgElapsedAllCalls(elapsed_time) ==
    [num |-> elapsed_time * 1000,
     den |-> NUM_TRIALS + NUM_WARMUP * NUM_WARMUP]

\* elapsed_time / NUM_TRIALS * 1000 as the exact rational num/den
AvgElapsed(elapsed_time) ==
    [num |-> elapsed_time * 1000, den |-> NUM_TRIALS]

RatLess(a, b) == a.num * b.den < b.num * a.den

RatEq(a, b) == a.num * b.den = b.num * a.den

\* variant: overall = total_time
AccumulateOverwrite(sum, total_time) == total_time

\* overall += total_time
Accumulate(sum, total_time) == sum + total_time

\* variant: an element goes in front of the elements equal to it
RECURSIVE InsertByAvgUnstable(_, _)
InsertByAvgUnstable(r, s) ==
    IF s = <<>> THEN <<r>>
    ELSE IF ~RatLess(Head(s).avg, r.avg) THEN <<r>> \o s
    ELSE <<Head(s)>> \o InsertByAvgUnstable(r, Tail(s))

\* sorted(results, key=lambda x: x[1]): a stable sort, ascending by avg
RECURSIVE InsertByAvg(_, _)
InsertByAvg(r, s) ==
    IF s = <<>> THEN <<r>>
    ELSE IF RatLess(r.avg, Head(s).avg) THEN <<r>> \o s
    ELSE <<Head(s)>> \o InsertByAvg(r, Tail(s))

RECURSIVE sorted(_)
sorted(s) ==
    IF s = <<>> THEN <<>>
    ELSE InsertByAvg(s[Len(s)], sorted(SubSeq(s, 1, Len(s) - 1)))

\* ------------------------------------------------------------------- Init
\* The state after benchmark.py's module level has run: the registry is
\* built from some listing, the fixture is built, main() is about to call
\* display_results.
Init ==
    /\ DEBUG \in BOOLEAN
    /\ NUM_WARMUP \in 0 .. MaxWarmup
    /\ methods \in {create_methods_list(l) : l \in Listings}
    /\ start_array = NoiseField
    /\ end_array = ZeroBuffer
    /\ pc = "header"
    /\ idx = 0
    /\ method_name = None
    /\ bm = NoFrame
    /\ results = <<>>
    /\ overall = 0
    /\ sorted_results = <<>>
    /\ out = <<>>
    /\ exc = NoExc
    /\ obs = NoObs
    /\ invoked = {}
    /\ ret = None
    /\ calls = 0
    /\ buf0 = ZeroBuffer
    /\ listed = <<>>
    /\ method_files = <<>>
    /\ imported = <<>>

\* ------------------------------------------------------- display_results
\* lines 120-128: the header, then results = [] and overall = 0
PrintHeader ==
    /\ pc = "header"
    /\ out' = out \o <<Separator, Line("header", None, None, None), Separator>>
    /\ results' = <<>>
    /\ overall' = 0
    /\ idx' = 1
    /\ pc' = "loop"
    /\ UNCHANGED <<config, end_array, method_name, bm, sorted_results, exc,
                   obs, invoked, ret>>

\* variant: the registry is walked from its last entry to its first
LoopNextReversed ==
    /\ pc = "loop"
    /\ IF idx > Len(methods)
       THEN /\ pc' = "sort"
            /\ UNCHANGED <<method_name, bm, obs, exc>>
       ELSE LET m == methods[Len(methods) - idx + 1]
            IN  /\ method_name' = m
                /\ IF HasSetup(m) /\ HasProcess(m)
                   THEN /\ pc' = "b_setup"
                        /\ bm' = NoFrame
                        /\ obs' = NoObs
                        /\ exc' = exc
                   ELSE /\ pc' = "crashed"
                        /\ exc' = [type |-> "AttributeError", kernel |-> m]
                        /\ UNCHANGED <<bm, obs>>
    /\ UNCHANGED <<config, end_array, idx, report, invoked, ret>>

\* lines 129-130: the next item of methods.items(); module.setup and
\* module.process are looked up before benchmark is entered
LoopNext ==
    /\ pc = "loop"
    /\ IF idx > Len(methods)
       THEN /\ pc' = "sort"
            /\ UNCHANGED <<method_name, bm, obs, exc>>
       ELSE /\ method_name' = methods[idx]
            /\ IF HasSetup(methods[idx]) /\ HasProcess(methods[idx])
               THEN /\ pc' = "b_setup"
                    /\ bm' = NoFrame
                    /\ obs' = NoObs
                    /\ exc' = exc
               ELSE /\ pc' = "crashed"
                    /\ exc' = [type |-> "AttributeError", kernel |-> methods[idx]]
                    /\ UNCHANGED <<bm, obs>>
    /\ UNCHANGED <<config, end_array, idx, report, invoked, ret>>

\* ------------------------------------------------------------- benchmark
\* line 81: setup_code = setup()
BenchSetup ==
    /\ pc = "b_setup"
    /\ bm' = [bm EXCEPT !.setup_code = method_name]
    /\ obs' = [obs EXCEPT !.setup_calls = @ + 1]
    /\ pc' = "b_ns"
    /\ UNCHANGED <<config, end_array, idx, method_name, report, exc, invoked,
                   ret>>

\* lines 84-89: _NS with copies of the two arrays and the grid dimensions
BenchNamespace ==
    /\ pc = "b_ns"
    /\ bm' = [bm EXCEPT !.NS = [start_array |-> start_array,
                                end_array |-> end_array,
                                GRID_ROW |-> GRID_ROW,
                                GRID_COL |-> GRID_COL]]
    /\ obs' = [obs EXCEPT !.ns_builds = @ + 1]
    /\ pc' = "b_timer"
    /\ UNCHANGED <<config, end_array, idx, method_name, report, exc, invoked,
                   ret>>

\* variant: the globals dict is shared by all calls of benchmark and holds
\* what the setup code of the kernels run so far has bound
BenchTimerSharedGlobals ==
    /\ pc = "b_timer"
    /\ bm' = [bm EXCEPT
                 !.globals = DOMAIN bm.NS
                                \cup UNION {SetupBindings(k) : k \in invoked},
                 !.warm_left = NUM_WARMUP]
    /\ pc' = "b_warm"
    /\ UNCHANGED <<config, end_array, idx, method_name, report, exc, obs,
                   invoked, ret>>

\* line 92: Timer(lambda: process(start_array, end_array), setup=setup_code,
\* globals={**_NS}); the lambda closes over benchmark's own parameters, which
\* are the caller's arrays
BenchTimer ==
    /\ pc = "b_timer"
    /\ bm' = [bm EXCEPT !.globals = DOMAIN bm.NS, !.warm_left = NUM_WARMUP]
    /\ pc' = "b_warm"
    /\ UNCHANGED <<config, end_array, idx, method_name, report, exc, obs,
                   invoked, ret>>

\* variant: each warm-up iteration invokes process once
BenchWarmupSingle ==
    /\ pc = "b_warm"
    /\ IF NUM_WARMUP > 0 /\ bm.warm_left > 0
       THEN /\ bm' = [bm EXCEPT !.warm_left = @ - 1, !.it_left = 1,
                                !.phase = "warm"]
            /\ obs' = [obs EXCEPT !.setup_execs = 0]
            /\ pc' = "t_setup"
       ELSE /\ pc' = "b_profile"
            /\ UNCHANGED <<bm, obs>>
    /\ UNCHANGED <<config, end_array, idx, method_name, report, exc, invoked,
                   ret>>

\* lines 95-96: [timer.timeit(number=NUM_WARMUP) for _ in range(NUM_WARMUP)]
BenchWarmup ==
    /\ pc = "b_warm"
    /\ IF NUM_WARMUP > 0 /\ bm.warm_left > 0
       THEN /\ bm' = [bm EXCEPT !.warm_left = @ - 1, !.it_left = NUM_WARMUP,
                                !.phase = "warm"]
            /\ obs' = [obs EXCEPT !.setup_execs = 0]
            /\ pc' = "t_setup"
       ELSE /\ pc' = "b_profile"
            /\ UNCHANGED <<bm, obs>>
    /\ UNCHANGED <<config, end_array, idx, method_name, report, exc, invoked,
                   ret>>

\* variant: the profiler is enabled whatever DEBUG is
BenchProfilerOnAlways ==
    /\ pc = "b_profile"
    /\ bm' = [bm EXCEPT !.profiler_on = TRUE]
    /\ pc' = "b_timed"
    /\ UNCHANGED <<config, end_array, idx, method_name, report, exc, obs,
                   invoked, ret>>

\* lines 98-100: if DEBUG: profiler = cProfile.Profile(); profiler.enable()
BenchProfilerOn ==
    /\ pc = "b_profile"
    /\ bm' = [bm EXCEPT !.profiler_on = DEBUG]
    /\ pc' = "b_timed"
    /\ UNCHANGED <<config, end_array, idx, method_name, report, exc, obs,
                   invoked, ret>>

\* variant: the timed call repeats the warm-up's number
BenchTimedWarmupNumber ==
    /\ pc = "b_timed"
    /\ bm' = [bm EXCEPT !.it_left = NUM_WARMUP, !.phase = "timed"]
    /\ obs' = [obs EXCEPT !.setup_execs = 0]
    /\ pc' = "t_setup"
    /\ UNCHANGED <<config, end_array, idx, method_name, report, exc, invoked,
                   ret>>

\* line 103: elapsed_time = timer.timeit(number=NUM_TRIALS), the call
BenchTimed ==
    /\ pc = "b_timed"
    /\ bm' = [bm EXCEPT !.it_left = NUM_TRIALS, !.phase = "timed"]
    /\ obs' = [obs EXCEPT !.setup_execs = 0]
    /\ pc' = "t_setup"
    /\ UNCHANGED <<config, end_array, idx, method_name, report, exc, invoked,
                   ret>>

\* variant: a failing setup is recorded and the loop goes on with the next
\* kernel
TimeitSetupSkips ==
    /\ pc = "t_setup"
    /\ \/ /\ bm' = [bm EXCEPT !.locals = SetupBindings(bm.setup_code)]
          /\ obs' = [obs EXCEPT !.setup_execs = @ + 1]
          /\ pc' = "t_start"
          /\ UNCHANGED <<exc, idx>>
       \/ /\ SetupBindings(bm.setup_code) # {}
          /\ exc' = [type |-> "SetupError", kernel |-> method_name]
          /\ idx' = idx + 1
          /\ pc' = "loop"
          /\ UNCHANGED <<bm, obs>>
    /\ UNCHANGED <<config, end_array, method_name, report, invoked, ret>>

\* timeit's inner(): the setup code runs first, binding its names as locals
\* of inner; it can raise (a failing import, a failing allocation)
TimeitSetup ==
    /\ pc = "t_setup"
    /\ \/ /\ bm' = [bm EXCEPT !.locals = SetupBindings(bm.setup_code)]
          /\ obs' = [obs EXCEPT !.setup_execs = @ + 1]
          /\ pc' = "t_start"
          /\ exc' = exc
       \/ /\ SetupBindings(bm.setup_code) # {}
          /\ exc' = [type |-> "SetupError", kernel |-> method_name]
          /\ pc' = "crashed"
          /\ UNCHANGED <<bm, obs>>
    /\ UNCHANGED <<config, end_array, idx, method_name, report, invoked, ret>>

\* inner(): _t0 = _timer()
TimeitStart ==
    /\ pc = "t_start"
    /\ obs' = [obs EXCEPT !.region = TRUE, !.region_calls = 0]
    /\ pc' = "t_loop"
    /\ UNCHANGED <<config, end_array, idx, method_name, bm, report, exc,
                   invoked, ret>>

\* variant: a raising call is caught and counted as a pass of the loop
TimeitStmtSwallow ==
    /\ pc = "t_loop"
    /\ bm.it_left > 0
    /\ invoked' = invoked \cup {method_name}
    /\ \/ LET r == Process(method_name, start_array, end_array)
          IN  /\ end_array' = r.end_array
              /\ ret' = r.ret
              /\ exc' = exc
       \/ /\ exc' = [type |-> "ProcessError", kernel |-> method_name]
          /\ UNCHANGED <<end_array, ret>>
    /\ bm' = [bm EXCEPT !.it_left = @ - 1]
    /\ obs' = [obs EXCEPT
                 !.region_calls = @ + 1,
                 !.warm_calls = @ + (IF bm.phase = "warm" THEN 1 ELSE 0)]
    /\ UNCHANGED <<config, pc, idx, method_name, report>>

\* variant: the setup code is part of the statement and runs on every pass
TimeitStmtRerunsSetup ==
    /\ pc = "t_loop"
    /\ bm.it_left > 0
    /\ invoked' = invoked \cup {method_name}
    /\ \/ LET r == Process(method_name, start_array, end_array)
          IN  /\ end_array' = r.end_array
              /\ ret' = r.ret
              /\ bm' = [bm EXCEPT !.it_left = @ - 1]
              /\ obs' = [obs EXCEPT
                           !.setup_execs = @ + 1,
                           !.region_calls = @ + 1,
                           !.warm_calls = @ + (IF bm.phase = "warm" THEN 1 ELSE 0)]
              /\ UNCHANGED <<pc, exc>>
       \/ /\ exc' = [type |-> "ProcessError", kernel |-> method_name]
          /\ pc' = "crashed"
          /\ UNCHANGED <<end_array, ret, bm, obs>>
    /\ UNCHANGED <<config, idx, method_name, report>>

\* inner(): one pass of "for _i in _it: _stmt()", which calls
\* process(start_array, end_array) on the arrays benchmark was given; the
\* call returns or raises
TimeitStmt ==
    /\ pc = "t_loop"
    /\ bm.it_left > 0
    /\ invoked' = invoked \cup {method_name}
    /\ \/ LET r == Process(method_name, start_array, end_array)
          IN  /\ end_array' = r.end_array
              /\ ret' = r.ret
              /\ bm' = [bm EXCEPT !.it_left = @ - 1]
              /\ obs' = [obs EXCEPT
                           !.region_calls = @ + 1,
                           !.warm_calls = @ + (IF bm.phase = "warm" THEN 1 ELSE 0)]
              /\ UNCHANGED <<pc, exc>>
       \/ /\ exc' = [type |-> "ProcessError", kernel |-> method_name]
          /\ pc' = "crashed"
          /\ UNCHANGED <<end_array, ret, bm, obs>>
    /\ UNCHANGED <<config, idx, method_name, report>>

\* inner(): _t1 = _timer(); return _t1 - _t0, any difference the clock can
\* show; a warm-up result is dropped, the timed one becomes elapsed_time
TimeitStop ==
    /\ pc = "t_loop"
    /\ bm.it_left = 0
    /\ \E d \in 0 .. MaxElapsed :
         bm' = [bm EXCEPT !.locals = {},
                          !.elapsed_time = IF bm.phase = "timed" THEN d ELSE @]
    /\ obs' = [obs EXCEPT !.region = FALSE]
    /\ pc' = IF bm.phase = "warm" THEN "b_warm" ELSE "b_stats"
    /\ UNCHANGED <<config, end_array, idx, method_name, report, exc, invoked,
                   ret>>

\* variant: the statistics are printed whatever DEBUG is
BenchProfilerOffAlways ==
    /\ pc = "b_stats"
    /\ bm' = [bm EXCEPT !.profiler_on = FALSE]
    /\ out' = Append(out, Line("profile", method_name, None, None))
    /\ pc' = "b_return"
    /\ UNCHANGED <<config, end_array, idx, method_name, results, overall,
                   sorted_results, exc, obs, invoked, ret>>

\* lines 105-107: if DEBUG: profiler.disable(); profiler.print_stats(...)
BenchProfilerOff ==
    /\ pc = "b_stats"
    /\ IF DEBUG
       THEN /\ bm' = [bm EXCEPT !.profiler_on = FALSE]
            /\ out' = Append(out, Line("profile", method_name, None, None))
       ELSE UNCHANGED <<bm, out>>
    /\ pc' = "b_return"
    /\ UNCHANGED <<config, end_array, idx, method_name, results, overall,
                   sorted_results, exc, obs, invoked, ret>>

\* line 109 and lines 130-132: return elapsed_time, elapsed_time /
\* NUM_TRIALS * 1000; the caller unpacks (total_time, avg_time), appends
\* (method_name, avg_time, total_time) and adds total_time to overall
BenchReturn ==
    /\ pc = "b_return"
    /\ LET total_time == bm.elapsed_time
           avg_time == AvgElapsed(bm.elapsed_time)
       IN  /\ results' = Append(results, [name |-> method_name,
                                          avg |-> avg_time,
                                          total |-> total_time])
           /\ overall' = Accumulate(overall, total_time)
    /\ idx' = idx + 1
    /\ pc' = "loop"
    /\ UNCHANGED <<config, end_array, method_name, bm, sorted_results, out,
                   exc, obs, invoked, ret>>

\* line 135
SortResults ==
    /\ pc = "sort"
    /\ sorted_results' = sorted(results)
    /\ idx' = 1
    /\ pc' = "print"
    /\ UNCHANGED <<config, end_array, method_name, bm, results, overall, out,
                   exc, obs, invoked, ret>>

\* variant: the names are printed in measuring order beside the sorted times
PrintResultNameByPosition ==
    /\ pc = "print"
    /\ idx <= Len(sorted_results)
    /\ LET r == sorted_results[idx]
       IN  out' = Append(out, Line("result", results[idx].name, r.avg, r.total))
    /\ idx' = idx + 1
    /\ UNCHANGED <<config, end_array, pc, method_name, bm, results, overall,
                   sorted_results, exc, obs, invoked, ret>>

\* lines 138-139: one result line
PrintResult ==
    /\ pc = "print"
    /\ idx <= Len(sorted_results)
    /\ LET r == sorted_results[idx]
       IN  out' = Append(out, Line("result", r.name, r.avg, r.total))
    /\ idx' = idx + 1
    /\ UNCHANGED <<config, end_array, pc, method_name, bm, results, overall,
                   sorted_results, exc, obs, invoked, ret>>

\* lines 141-143: the footer with the grand total
PrintFooter ==
    /\ pc = "print"
    /\ idx > Len(sorted_results)
    /\ out' = out \o <<Separator, Line("footer", None, None, overall), Separator>>
    /\ pc' = "done"
    /\ UNCHANGED <<config, end_array, idx, method_name, bm, results, overall,
                   sorted_results, exc, obs, invoked, ret>>

Next ==
    \/ PrintHeader
    \/ LoopNext
    \/ BenchSetup
    \/ BenchNamespace
    \/ BenchTimer
    \/ BenchWarmup
    \/ BenchProfilerOn
    \/ BenchTimed
    \/ TimeitSetup
    \/ TimeitStart
    \/ TimeitStmt
    \/ TimeitStop
    \/ BenchProfilerOff
    \/ BenchReturn
    \/ SortResults
    \/ PrintResult
    \/ PrintFooter

Spec == Init /\ [][Next]_vars

\* ----------------------------------------------------------- SpecKernel
\* One kernel applied to any input field, MaxCalls times in succession, on
\* an output buffer that is zeroed or dirty.
InitKernel ==
    /\ DEBUG = FALSE
    /\ NUM_WARMUP = 0
    /\ methods = <<>>
    /\ start_array \in Fields
    /\ end_array \in {ZeroBuffer, DirtyBuffer}
    /\ buf0 = end_array
    /\ method_name \in Kernels
    /\ pc = "kernel"
    /\ idx = 0
    /\ bm = NoFrame
    /\ results = <<>>
    /\ overall = 0
    /\ sorted_results = <<>>
    /\ out = <<>>
    /\ exc = NoExc
    /\ obs = NoObs
    /\ invoked = {}
    /\ ret = None
    /\ calls = 0
    /\ listed = <<>>
    /\ method_files = <<>>
    /\ imported = <<>>

\* module.process(start_array, end_array)
KernelInvoke ==
    /\ pc = "kernel"
    /\ calls < MaxCalls
    /\ LET r == Process(method_name, start_array, end_array)
       IN  /\ end_array' = r.end_array
           /\ ret' = r.ret
    /\ calls' = calls + 1
    /\ invoked' = invoked \cup {method_name}
    /\ UNCHANGED <<DEBUG, NUM_WARMUP, methods, start_array, buf0, pc, idx,
                   method_name, bm, report, exc, obs, discovery>>

NextKernel == KernelInvoke

SpecKernel == InitKernel /\ [][NextKernel]_vars

\* ---------------------------------------------------------- SpecDiscover
\* create_methods_list step by step, on any listing of the directory.
InitDiscover ==
    /\ DEBUG = FALSE
    /\ NUM_WARMUP = 0
    /\ methods = <<>>
    /\ start_array = NoiseField
    /\ end_array = ZeroBuffer
    /\ buf0 = ZeroBuffer
    /\ method_name = None
    /\ pc = "listdir"
    /\ idx = 1
    /\ bm = NoFrame
    /\ results = <<>>
    /\ overall = 0
    /\ sorted_results = <<>>
    /\ out = <<>>
    /\ exc = NoExc
    /\ obs = NoObs
    /\ invoked = {}
    /\ ret = None
    /\ calls = 0
    /\ listed \in Listings
    /\ method_files = <<>>
    /\ imported = <<>>

\* methods[key] = module: a new key goes last, a known key keeps its place
DictSet(d, key) ==
    IF \E i \in 1 .. Len(d) : d[i] = key THEN d ELSE Append(d, key)

\* lines 59-61: methods = {}; method_files = [f[:-3] for f in listdir(...)
\* if f.endswith('.py') and f != '__init__.py']
ListDir ==
    /\ pc = "listdir"
    /\ method_files' = [i \in 1 .. Len(SelectSeq(listed, IsMethodFile)) |->
                          SelectSeq(listed, IsMethodFile)[i].stem]
    /\ methods' = <<>>
    /\ idx' = 1
    /\ pc' = "import"
    /\ UNCHANGED <<DEBUG, NUM_WARMUP, start_array, end_array, buf0, calls,
                   listed, imported, method_name, bm, report, exc, obs,
                   invoked, ret>>

\* lines 62-64: module = import_module(...); methods[method_file] = module
ImportModule ==
    /\ pc = "import"
    /\ idx <= Len(method_files)
    /\ imported' = Append(imported, method_files[idx])
    /\ methods' = DictSet(methods, method_files[idx])
    /\ idx' = idx + 1
    /\ UNCHANGED <<DEBUG, NUM_WARMUP, start_array, end_array, buf0, calls,
                   listed, method_files, pc, method_name, bm, report, exc,
                   obs, invoked, ret>>

\* line 65: return methods
ReturnMethods ==
    /\ pc = "import"
    /\ idx > Len(method_files)
    /\ pc' = "discovered"
    /\ UNCHANGED <<DEBUG, NUM_WARMUP, methods, start_array, end_array, buf0,
                   calls, discovery, idx, method_name, bm, report, exc, obs,
                   invoked, ret>>

NextDiscover ==
    \/ ListDir
    \/ ImportModule
    \/ ReturnMethods

SpecDiscover == InitDiscover /\ [][NextDiscover]_vars

\* ----------------------------------------------------------------- main.py
\* The ad-hoc entry point: seven methods on the module-level field `result`,
\* four of them writing into the module-level buffer grid_array_trash.
\* Here start_array holds `result`, end_array holds grid_array_trash, and a
\* method returns [end_array |-> the buffer afterwards, ret |-> its value].

\* 1. nested loops: every cell of grid_array_trash becomes (res, 0, 0)
original_method(result, grid_array_trash) ==
    LET new == [c \in Cells |->
                  LET res == IF result[c] > 0 THEN 255 ELSE 0
                  IN  <<res, 0, 0>>]
    IN  [end_array |-> new, ret |-> new]

\* 2. where(result > 0, 255, 0) stored into channel 0 of grid_array_trash
where_method(result, grid_array_trash) ==
    LET res_array == [c \in Cells |-> IF result[c] > 0 THEN 255 ELSE 0]
        new == [c \in Cells |->
                  [grid_array_trash[c] EXCEPT ![1] = res_array[c] % 256]]
    IN  [end_array |-> new, ret |-> new]

\* 3. vectorize(custom_function)(result) stored into channel 0
vectorize_method(result, grid_array_trash) ==
    LET custom_function(value) == IF value > 0 THEN 255 ELSE 0
        res_array == [c \in Cells |-> custom_function(result[c])]
        new == [c \in Cells |->
                  [grid_array_trash[c] EXCEPT ![1] = res_array[c] % 256]]
    IN  [end_array |-> new, ret |-> new]

\* 4. (result > 0) * 255 stored into channel 0
broadcasting_method(result, grid_array_trash) ==
    LET new == [c \in Cells |->
                  [grid_array_trash[c] EXCEPT
                     ![1] = ((IF result[c] > 0 THEN 1 ELSE 0) * 255) % 256]]
    IN  [end_array |-> new, ret |-> new]

\* 5. a new array built from a list of rows; grid_array_trash is a local
\* name here, the module-level buffer is not written
list_comprehension_method(result, grid_array_trash) ==
    LET grid_array_list ==
            [c \in Cells |-> <<IF result[c] > 0 THEN 255 ELSE 0, 0, 0>>]
    IN  [end_array |-> grid_array_trash, ret |-> grid_array_list]

\* 6. a new zeroed uint8 array, filled cell by cell; the test is `< 0`
numba_jit_method(result, grid_array_trash) ==
    LET new == [c \in Cells |->
                  LET res == IF result[c] < 0 THEN 255 ELSE 0
                  IN  <<res, 0, 0>>]
    IN  [end_array |-> grid_array_trash, ret |-> new]

\* 7. process_cell on every value, the tuples reshaped to the grid
parallel_method(result, grid_array_trash) ==
    LET process_cell_main(value) == <<IF value > 0 THEN 255 ELSE 0, 0, 0>>
        new == [c \in Cells |-> process_cell_main(result[c])]
    IN  [end_array |-> grid_array_trash, ret |-> new]

\* the list `methods` of main.py: (number, name, method)
main_methods ==
    << [number |-> 1, name |-> "Original Method",
        method |-> "original_method"],
       [number |-> 2, name |-> "where Method",
        method |-> "where_method"],
       [number |-> 3, name |-> "vectorize Method",
        method |-> "vectorize_method"],
       [number |-> 4, name |-> "Broadcasting Method",
        method |-> "broadcasting_method"],
       [number |-> 5, name |-> "List Comprehension Method",
        method |-> "list_comprehension_method"],
       [number |-> 6, name |-> "Numba JIT Method",
        method |-> "numba_jit_method"],
       [number |-> 7, name |-> "Parallel Method",
        method |-> "parallel_method"] >>

\* method(result)
MainCall(m, result, grid_array_trash) ==
    CASE m = "original_method" -> original_method(result, grid_array_trash)
      [] m = "where_method" -> where_method(result, grid_array_trash)
      [] m = "vectorize_method" -> vectorize_method(result, grid_array_trash)
      [] m = "broadcasting_method" ->
             broadcasting_method(result, grid_array_trash)
      [] m = "list_comprehension_method" ->
             list_comprehension_method(result, grid_array_trash)
      [] m = "numba_jit_method" -> numba_jit_method(result, grid_array_trash)
      [] m = "parallel_method" -> parallel_method(result, grid_array_trash)

\* dtype_list: a name is stored as '<U18', its first 18 characters
U18(name) ==
    CASE name = "Original Method" -> "Original Method"
      [] name = "where Method" -> "where Method"
      [] name = "vectorize Method" -> "vectorize Method"
      [] name = "Broadcasting Method" -> "Broadcasting Metho"
      [] name = "List Comprehension Method" -> "List Comprehension"
      [] name = "Numba JIT Method" -> "Numba JIT Method"
      [] name = "Parallel Method" -> "Parallel Method"

\* the place of a stored name in the code-point order of the stored names
NameRank(u) ==
    CASE u = "Broadcasting Metho" -> 1
      [] u = "List Comprehension" -> 2
      [] u = "Numba JIT Method" -> 3
      [] u = "Original Method" -> 4
      [] u = "Parallel Method" -> 5
      [] u = "vectorize Method" -> 6
      [] u = "where Method" -> 7

\* the order of numpy.sort(order=['duration']): by duration, ties by name
RowLess(a, b) ==
    \/ RatLess(a.avg, b.avg)
    \/ RatEq(a.avg, b.avg) /\ NameRank(a.name) < NameRank(b.name)

RECURSIVE InsertRow(_, _)
InsertRow(r, s) ==
    IF s = <<>> THEN <<r>>
    ELSE IF RowLess(r, Head(s)) THEN <<r>> \o s
    ELSE <<Head(s)>> \o InsertRow(r, Tail(s))

\* sort(new_order, order=['duration'])
RECURSIVE sort(_)
sort(s) ==
    IF s = <<>> THEN <<>>
    ELSE InsertRow(s[Len(s)], sort(SubSeq(s, 1, Len(s) - 1)))

\* new_order: the rows of ordered_methods as (duration, name '<U18')
new_order(rows) ==
    [i \in 1 .. Len(rows) |->
        [avg |-> rows[i].avg, name |-> U18(rows[i].name)]]

\* The state after lines 1-29 of main.py: the field is generated, both
\* buffers are zeroed.
InitMain ==
    /\ DEBUG = FALSE
    /\ NUM_WARMUP = 0
    /\ methods = <<>>
    /\ start_array \in Fields
    /\ end_array = ZeroBuffer
    /\ buf0 = ZeroBuffer
    /\ method_name = None
    /\ pc = "m_header"
    /\ idx = 0
    /\ bm = NoFrame
    /\ results = <<>>
    /\ overall = 0
    /\ sorted_results = <<>>
    /\ out = <<>>
    /\ exc = NoExc
    /\ obs = NoObs
    /\ invoked = {}
    /\ ret = None
    /\ calls = 0
    /\ listed = <<>>
    /\ method_files = <<>>
    /\ imported = <<>>

\* lines 201-203: the two configuration lines
MainHeader ==
    /\ pc = "m_header"
    /\ out' = out \o << Line("header", None, None, None),
                        Line("started", None, None, None) >>
    /\ calls' = 0
    /\ pc' = "m_warm"
    /\ UNCHANGED <<DEBUG, NUM_WARMUP, methods, start_array, end_array, buf0,
                   discovery, idx, method_name, bm, results, overall,
                   sorted_results, exc, obs, invoked, ret>>

\* lines 205-206: one warm-up cycle of numba_jit_method
MainWarmup ==
    /\ pc = "m_warm"
    /\ calls < WARMUP_RUNS
    /\ LET r == MainCall("numba_jit_method", start_array, end_array)
       IN  /\ end_array' = r.end_array
           /\ ret' = r.ret
    /\ method_name' = "numba_jit_method"
    /\ invoked' = invoked \cup {"numba_jit_method"}
    /\ out' = Append(out, Line("warming", "numba_jit_method", None, None))
    /\ calls' = calls + 1
    /\ UNCHANGED <<DEBUG, NUM_WARMUP, methods, start_array, buf0, discovery,
                   pc, idx, bm, results, overall, sorted_results, exc, obs>>

\* line 208: ordered_methods = [], after the last warm-up cycle
MainWarmupDone ==
    /\ pc = "m_warm"
    /\ calls = WARMUP_RUNS
    /\ results' = <<>>
    /\ idx' = 1
    /\ pc' = "m_loop"
    /\ UNCHANGED <<DEBUG, NUM_WARMUP, methods, start_array, end_array, buf0,
                   calls, discovery, method_name, bm, overall, sorted_results,
                   out, exc, obs, invoked, ret>>

\* line 210: the next (number, name, method), or the end of the list
MainLoopNext ==
    /\ pc = "m_loop"
    /\ IF idx > Len(main_methods)
       THEN /\ pc' = "m_sort"
            /\ UNCHANGED <<method_name, calls>>
       ELSE /\ method_name' = main_methods[idx].method
            /\ calls' = 0
            /\ pc' = "m_stmt"
    /\ UNCHANGED <<DEBUG, NUM_WARMUP, methods, start_array, end_array, buf0,
                   discovery, idx, bm, report, exc, obs, invoked, ret>>

\* line 213: one of the COUNTING_RUNS executions of method(result)
MainStmt ==
    /\ pc = "m_stmt"
    /\ calls < COUNTING_RUNS
    /\ LET r == MainCall(method_name, start_array, end_array)
       IN  /\ end_array' = r.end_array
           /\ ret' = r.ret
    /\ invoked' = invoked \cup {method_name}
    /\ calls' = calls + 1
    /\ UNCHANGED <<DEBUG, NUM_WARMUP, methods, start_array, buf0, discovery,
                   pc, idx, method_name, bm, report, exc, obs>>

\* lines 211-216: timeit returns the duration of the runs, and
\* [duration / COUNTING_RUNS, name] is appended
MainAppend ==
    /\ pc = "m_stmt"
    /\ calls = COUNTING_RUNS
    /\ \E duration \in 0 .. MaxElapsed :
         results' = Append(results,
                           [avg |-> [num |-> duration, den |-> COUNTING_RUNS],
                            name |-> main_methods[idx].name])
    /\ idx' = idx + 1
    /\ pc' = "m_loop"
    /\ UNCHANGED <<DEBUG, NUM_WARMUP, methods, start_array, end_array, buf0,
                   calls, discovery, method_name, bm, overall, sorted_results,
                   out, exc, obs, invoked, ret>>

\* lines 220-221: the rows as a structured array, sorted by duration
MainSort ==
    /\ pc = "m_sort"
    /\ sorted_results' = sort(new_order(results))
    /\ idx' = 1
    /\ pc' = "m_print"
    /\ UNCHANGED <<DEBUG, NUM_WARMUP, methods, start_array, end_array, buf0,
                   calls, discovery, method_name, bm, results, overall, out,
                   exc, obs, invoked, ret>>

\* lines 222-223: one line per row, numbered from 1
MainPrint ==
    /\ pc = "m_print"
    /\ idx <= Len(sorted_results)
    /\ LET val == sorted_results[idx]
       IN  out' = Append(out, Line("result", val.name, val.avg, idx))
    /\ idx' = idx + 1
    /\ UNCHANGED <<DEBUG, NUM_WARMUP, methods, start_array, end_array, buf0,
                   calls, discovery, pc, method_name, bm, results, overall,
                   sorted_results, exc, obs, invoked, ret>>

NextMain ==
    \/ MainHeader
    \/ MainWarmup
    \/ MainWarmupDone
    \/ MainLoopNext
    \/ MainStmt
    \/ MainAppend
    \/ MainSort
    \/ MainPrint

SpecMain == InitMain /\ [][NextMain]_vars

\* ------------------------------------------------------------------ claims
\* the result lines among the printed lines, in print order
ResultLines == SelectSeq(out, LAMBDA l : l.kind = "result")

\* the position of a kernel in the collected results (0 when absent)
MeasuredAt(name) ==
    IF \E i \in 1 .. Len(results) : results[i].name = name
    THEN CHOOSE i \in 1 .. Len(results) : results[i].name = name
    ELSE 0

RECURSIVE SumTotals(_)
SumTotals(lines) ==
    IF lines = <<>> THEN 0 ELSE Head(lines).total + SumTotals(Tail(lines))

\* what the claim under C4 expects of every kernel: channel 0 is 0 for a
\* cell <= 0 and trunc(255 * cell) for a cell > 0, channels 1 and 2 are 0
ExpectedOutput(s) ==
    [c \in Cells |-> <<IF s[c] <= 0 THEN 0 ELSE IntTrunc(255 * s[c]), 0, 0>>]

\* C1: the caller's start_array and end_array hold what they held before
\* benchmark was called; the shared output buffer stays all-zero for the
\* whole run.
C1_SharedFixtureUntouched ==
    start_array = NoiseField /\ end_array = ZeroBuffer

\* C2 (as stated): the profiler is never enabled while the timed
\* trial_count invocations run, whatever DEBUG is.
C2_ProfilerOffWhileTimed ==
    (obs.region /\ bm.phase = "timed") => ~bm.profiler_on

\* C2 (amended): the profiler is never enabled during warm-up invocations,
\* and during the timed invocations it is enabled exactly when DEBUG is true.
C2_ProfilerFollowsDebug ==
    obs.region => (bm.profiler_on <=> (DEBUG /\ bm.phase = "timed"))

C2_Witness ==
    /\ DEBUG
    /\ obs.region
    /\ bm.phase = "timed"
    /\ bm.profiler_on
    /\ obs.region_calls = NUM_TRIALS

\* C3: when a definition of the directory lacks process or setup, no kernel
\* is ever invoked and nothing of the report (header, result lines, footer)
\* is printed.
C3_MalformedStopsBeforeMeasurement ==
    (\E i \in 1 .. Len(methods) : methods[i] \in Malformed)
        => (invoked = {} /\ out = <<>>)

\* C4: on a zeroed output buffer every kernel returns an array over the
\* grid's cells whose channel 0 is 0 for a cell <= 0 and trunc(255 * cell)
\* for a cell > 0, and whose channels 1 and 2 are 0.
C4_KernelsMatchReference ==
    (pc = "kernel" /\ calls >= 1 /\ buf0 = ZeroBuffer)
        => ret = ExpectedOutput(start_array)

\* C5: once a kernel's process has raised, the run is over, no result tuple
\* of that kernel is collected and no line naming it is printed.
C5_FailureNeverTimed ==
    exc.type = "ProcessError" =>
        /\ pc = "crashed"
        /\ \A i \in 1 .. Len(results) : results[i].name # exc.kernel
        /\ \A i \in 1 .. Len(out) : out[i].name # exc.kernel

C5_Witness ==
    /\ exc.type = "ProcessError"
    /\ bm.phase = "timed"
    /\ Len(results) >= 1

\* C6: the printed result lines ascend by average time, and lines of equal
\* average keep the order in which their kernels were measured; once the
\* footer is out there is one line per collected result.
C6_PrintedStableAscending ==
    /\ \A i, j \in 1 .. Len(ResultLines) :
         i < j =>
           /\ ~RatLess(ResultLines[j].avg, ResultLines[i].avg)
           /\ RatEq(ResultLines[i].avg, ResultLines[j].avg)
                => MeasuredAt(ResultLines[i].name) < MeasuredAt(ResultLines[j].name)
    /\ \A i \in 1 .. Len(ResultLines) : MeasuredAt(ResultLines[i].name) > 0
    /\ pc = "done" => Len(ResultLines) = Len(results)

C6_Witness ==
    /\ pc = "done"
    /\ Len(ResultLines) >= 2
    /\ RatEq(ResultLines[1].avg, ResultLines[2].avg)

\* C7: the total of the footer is the sum of the totals of the result lines
\* printed above it.
C7_FooterIsSumOfLines ==
    \A i \in 1 .. Len(out) :
        out[i].kind = "footer" => out[i].total = SumTotals(ResultLines)

C7_Witness ==
    /\ pc = "done"
    /\ Len(ResultLines) >= 2
    /\ \A i \in 1 .. Len(ResultLines) : ResultLines[i].total > 0

\* C8: the region whose elapsed time becomes the total holds exactly
\* NUM_TRIALS invocations of process, whatever the warm-up count.
C8_ExactlyTrialCount ==
    pc \in {"b_stats", "b_return"} => obs.region_calls = NUM_TRIALS

C8_Witness ==
    /\ pc = "b_return"
    /\ NUM_WARMUP > 0
    /\ NUM_WARMUP # NUM_TRIALS
    /\ obs.warm_calls > 0

\* C9: in every collected result avg_time = total_time / NUM_TRIALS * 1000.
C9_AverageDerivedFromTotal ==
    \A i \in 1 .. Len(results) :
        results[i].avg.num * NUM_TRIALS
            = results[i].total * 1000 * results[i].avg.den

C9_Witness ==
    \E i \in 1 .. Len(results) : results[i].total > 0 /\ NUM_WARMUP > 0

\* C10: when a timed region starts, setup() has been called once, the
\* namespace has been built once and the setup code has run once in this
\* timeit call; it does not run again while the region lasts.
C10_SetupBeforeTimedRegion ==
    (obs.region \/ pc = "t_start") =>
        /\ obs.setup_calls = 1
        /\ obs.ns_builds = 1
        /\ obs.setup_execs = 1
        /\ bm.locals = SetupBindings(method_name)

C10_Witness ==
    /\ obs.region
    /\ bm.phase = "timed"
    /\ obs.region_calls = NUM_TRIALS
    /\ SetupBindings(method_name) # {}

\* the positions of the program inside a call of benchmark
BenchPcs ==
    {"b_setup", "b_ns", "b_timer", "b_warm", "b_profile", "b_timed",
     "t_setup", "t_start", "t_loop", "b_stats", "b_return"}

\* C11: kernels are measured one at a time in registry order: the results
\* collected so far are those of the first kernels of the registry, in
\* order; a running benchmark is that of the next registry entry; and no
\* kernel beyond that entry has been invoked.
C11_OneAtATimeInRegistryOrder ==
    /\ Len(results) <= Len(methods)
    /\ \A i \in 1 .. Len(results) : results[i].name = methods[i]
    /\ pc \in BenchPcs =>
         /\ Len(results) < Len(methods)
         /\ method_name = methods[Len(results) + 1]
    /\ \A k \in invoked :
         \E i \in 1 .. Len(methods) :
             methods[i] = k /\ i <= Len(results) + 1

C11_Witness ==
    /\ Len(methods) >= 2
    /\ Len(results) = 1
    /\ pc = "t_loop"
    /\ bm.phase = "timed"
    /\ obs.region_calls >= 1
    /\ Cardinality(invoked) = 2

\* C12: when the timed call starts, NUM_WARMUP * NUM_WARMUP warm-up
\* invocations have been made and finished, none when NUM_WARMUP is 0; no
\* warm-up invocation follows.
C12_WarmupSquared ==
    /\ bm.phase = "timed" => obs.warm_calls = NUM_WARMUP * NUM_WARMUP
    /\ obs.warm_calls <= NUM_WARMUP * NUM_WARMUP
    /\ NUM_WARMUP = 0 => bm.phase # "warm"

C12_Witness ==
    /\ NUM_WARMUP >= 2
    /\ bm.phase = "timed"
    /\ obs.region
    /\ obs.region_calls >= 1
    /\ obs.warm_calls = NUM_WARMUP * NUM_WARMUP

\* the names visible to the setup code and the trials of the running call
Namespace == bm.globals \cup bm.locals

\* C13: a name that only the setup code of another kernel binds is never in
\* the namespace of the kernel being measured.
C13_NoForeignBindings ==
    \A k \in Kernels \ {method_name} :
        \A n \in SetupBindings(k) \ SetupBindings(method_name) :
            n \notin Namespace

C13_Witness ==
    /\ Len(results) >= 1
    /\ obs.region
    /\ bm.phase = "timed"
    /\ obs.region_calls >= 1
    /\ bm.locals # {}
    /\ SetupBindings(results[1].name) \ SetupBindings(method_name) # {}

\* C14: a raising setup code and a raising process end the run alike: the
\* run is over, the failing kernel is the registry entry after the measured
\* ones, no later entry is ever measured or invoked, and neither a result
\* line nor the footer is printed.
C14_FailuresAbortTheRun ==
    exc.type \in {"SetupError", "ProcessError"} =>
        /\ pc = "crashed"
        /\ Len(results) < Len(methods)
        /\ exc.kernel = methods[Len(results) + 1]
        /\ \A i \in 1 .. Len(results) : results[i].name = methods[i]
        /\ \A k \in invoked :
             \E i \in 1 .. Len(results) + 1 : methods[i] = k
        /\ \A i \in 1 .. Len(out) : out[i].kind \notin {"result", "footer"}

C14_Witness ==
    /\ exc.type = "SetupError"
    /\ pc = "crashed"
    /\ bm.phase = "timed"
    /\ Len(methods) > Len(results) + 1

\* C15: with DEBUG false the profiler is never on, no call breakdown is
\* printed, and the two profiler steps of benchmark change nothing but the
\* position of the program.
C15_ProfilingNoOpWithoutDebug ==
    [][~DEBUG =>
         /\ ~bm'.profiler_on
         /\ \A i \in 1 .. Len(out') : out'[i].kind # "profile"
         /\ pc \in {"b_profile", "b_stats"} =>
              UNCHANGED <<config, end_array, idx, method_name, bm, report,
                          exc, obs, invoked, ret>>]_vars

C15_Witness ==
    /\ ~DEBUG
    /\ pc = "b_return"
    /\ NUM_WARMUP > 0

\* the definition files among the listed entries: those ending in .py other
\* than the package marker
DefinitionFiles ==
    {listed[i] : i \in {j \in 1 .. Len(listed) :
                          /\ listed[j].suffix = ".py"
                          /\ listed[j].stem # "__init__"}}

\* C16: the registry create_methods_list returns has exactly one key per
\* definition file, the file's name without .py, each loaded once under
\* that name; the package marker and the entries not ending in .py give no
\* key.
C16_OneEntryPerDefinitionFile ==
    pc = "discovered" =>
        /\ {methods[i] : i \in 1 .. Len(methods)}
               = {f.stem : f \in DefinitionFiles}
        /\ Len(methods) = Cardinality(DefinitionFiles)
        /\ imported = methods
        /\ methods = create_methods_list(listed)
        /\ \A i \in 1 .. Len(listed) :
             listed[i] \notin DefinitionFiles =>
                 \A j \in 1 .. Len(methods) : methods[j] # listed[i].stem

C16_Witness ==
    /\ pc = "discovered"
    /\ Len(listed) >= 2
    /\ \E i \in 1 .. Len(listed) : listed[i] = File("__init__", ".py")
    /\ Len(methods) >= 1

\* C17: the nested-loop kernel returns, for every cell on its own, (0, 0, 0)
\* when the cell is <= 0 and (trunc(255 * cell), 0, 0) when it is > 0 (so
\* -0.5 gives (0, 0, 0) and 0.6 gives (153, 0, 0)), whatever the other cells
\* hold and whatever the output buffer held before.
C17_NestedLoopCellwise ==
    (pc = "kernel" /\ method_name = "nested_loop_method" /\ calls >= 1) =>
        /\ end_array = ret
        /\ \A c \in Cells :
             /\ start_array[c] <= 0 => ret[c] = <<0, 0, 0>>
             /\ start_array[c] > 0
                  => ret[c] = <<IntTrunc(255 * start_array[c]), 0, 0>>
             /\ start_array[c] = -5 => ret[c] = <<0, 0, 0>>
             /\ start_array[c] = 6 => ret[c] = <<153, 0, 0>>

C17_Witness ==
    /\ pc = "kernel"
    /\ method_name = "nested_loop_method"
    /\ calls = 1
    /\ buf0 = DirtyBuffer
    /\ \E c, d \in Cells : start_array[c] = -5 /\ start_array[d] = 6

\* C18: when the report is complete there is exactly one result line per
\* registry entry, and the line of a kernel shows the average and the total
\* collected for that kernel.
C18_OneLinePerKernel ==
    pc = "done" =>
        /\ Len(ResultLines) = Len(methods)
        /\ \A i \in 1 .. Len(methods) :
             /\ Cardinality({j \in 1 .. Len(ResultLines) :
                               ResultLines[j].name = methods[i]}) = 1
             /\ \A j \in 1 .. Len(ResultLines) :
                  ResultLines[j].name = methods[i] =>
                      /\ results[i].name = methods[i]
                      /\ ResultLines[j].avg = results[i].avg
                      /\ ResultLines[j].total = results[i].total

C18_Witness ==
    /\ pc = "done"
    /\ Len(methods) >= 2
    /\ results[1].total > results[2].total
    /\ ResultLines[1].name = methods[2]

\* C19: a further invocation of a kernel on the same input field and the
\* same output buffer returns what the invocation before it returned.
C19_Idempotent ==
    [][(pc = "kernel" /\ calls >= 1) => ret' = ret]_vars

C19_Witness ==
    /\ pc = "kernel"
    /\ calls >= 2
    /\ method_name = "where_method"
    /\ buf0 = DirtyBuffer
    /\ \E c \in Cells : start_array[c] = 6

\* C20: whatever kernels ran before, a kernel returns in display_results
\* what it returns on the freshly built fixture, and channels 1 and 2 of
\* the shared output buffer are zero at every moment.
C20_OutputIndependentOfOrder ==
    /\ \A c \in Cells : end_array[c][2] = 0 /\ end_array[c][3] = 0
    /\ (pc \in BenchPcs /\ obs.warm_calls + obs.region_calls >= 1) =>
           ret = Process(method_name, NoiseField, ZeroBuffer).ret

C20_Witness ==
    /\ Len(results) >= 1
    /\ results[1].name = "nested_loop_method"
    /\ method_name = "heaviside_method"
    /\ end_array # ZeroBuffer
    /\ pc = "t_loop"
    /\ obs.region_calls >= 1

\* what the claim under C21 expects of every method of main.py: (255, 0, 0)
\* where result[x][y] > 0 and (0, 0, 0) otherwise
MainExpected(result) ==
    [c \in Cells |-> IF result[c] > 0 THEN <<255, 0, 0>> ELSE <<0, 0, 0>>]

\* C21: in main.py, whichever of the seven methods has just returned, the
\* array it returned holds (255, 0, 0) in the cells where result > 0 and
\* (0, 0, 0) in every other cell.
C21_MainMethodsSameTransform ==
    (pc \in {"m_warm", "m_stmt"} /\ calls >= 1)
        => ret = MainExpected(start_array)

====
